---- MODULE Spec2Model ----
(***************************************************************************)
(* Session lifecycle and statistics aggregation of the typing trainer      *)
(* backend: sessionService (startSession, recordKeyPress, endSession,      *)
(* getSession), sessionRepository, statisticsRepository and cleanup.ts.    *)
(*                                                                         *)
(* Every service function is an async function; each `await` of a Prisma   *)
(* call is a point where other requests may run.  A request is therefore   *)
(* modelled as a sequence of atomic steps, one per store operation         *)
(* together with the synchronous code that follows it up to the next       *)
(* await.  The tables are the shared state.                                *)
(***************************************************************************)
EXTENDS Integers, Sequences, FiniteSets, TLC

\* ------------------------------------------------------------------ bounds
MaxSessions == 2
MaxResults == 2
NumRequests == 2
\* longest keystroke list the summary is computed from
MaxKeys == 3
\* sessions played one after the other, and keystrokes in each of them
MaxFolds == 3
MaxPlayKeys == 2
\* sessions in the store when the history is read
MaxHistory == 11

\* the accounts the repository's own scripts create: prisma/seed.ts and
\* test-api.ts (register)
Users == {"testuser", "johndoe"}
NoUser == "nobody"
SessionIds == 1..MaxSessions
Requests == 1..NumRequests

\* typing_sessions.duration DEFAULT 60
DefaultDuration == 60

Null == 0

\* ------------------------------------------------------- exact rationals
\* DOUBLE PRECISION columns and JS numbers, modelled by exact fractions
\* <<numerator, denominator>> in lowest terms.
RECURSIVE GCD(_, _)
GCD(a, b) == IF b = 0 THEN a ELSE GCD(b, a % b)

Rat(n, d) == LET g == GCD(n, d) IN IF n = 0 THEN <<0, 1>> ELSE <<n \div g, d \div g>>
RZero == <<0, 1>>
RInt(n) == <<n, 1>>
RAdd(a, b) == Rat(a[1] * b[2] + b[1] * a[2], a[2] * b[2])
RMul(a, b) == Rat(a[1] * b[1], a[2] * b[2])
RDiv(a, b) == Rat(a[1] * b[2], a[2] * b[1])
RLeq(a, b) == a[1] * b[2] <= b[1] * a[2]
RMax(a, b) == IF RLeq(a, b) THEN b ELSE a
RMin(a, b) == IF RLeq(a, b) THEN a ELSE b
REq(a, b) == a[1] * b[2] = b[1] * a[2]

\* ------------------------------------------------------------- responses
\* AppError(statusCode, message) as thrown by the services and controllers.
Created == [code |-> 201, message |-> "created"]
Ok == [code |-> 200, message |-> "ok"]
OkWith(body) == [code |-> 200, message |-> "ok", body |-> body]
ActiveSessionExists == [code |-> 400, message |-> "You already have an active session. Please complete or abandon it first."]
SessionNotFound == [code |-> 404, message |-> "Session not found"]
NoPermission == [code |-> 403, message |-> "You do not have permission to access this session"]
SessionNotActive == [code |-> 400, message |-> "Session is not active"]
NoKeyPresses == [code |-> 400, message |-> "No key presses recorded for this session"]
ZodValidation == [code |-> 400, message |-> "Validation error"]
StatisticsMissing == [code |-> 500, message |-> "User statistics not found"]
StoreError == [code |-> 500, message |-> "store operation rejected"]
EmailRegistered == [code |-> 400, message |-> "Email already registered"]
UsernameTaken == [code |-> 400, message |-> "Username already taken"]
StatisticsNotFound == [code |-> 404, message |-> "Statistics not found"]
UniqueConstraintFailed == [code |-> 500, message |-> "Unique constraint failed"]
InvalidCredentials == [code |-> 401, message |-> "Invalid email or password"]
NoResponse == [code |-> 0, message |-> ""]

\* ---------------------------------------------------------------- inputs
\* Request bodies of POST /:sessionId/keypress.  Keys are sequences of
\* characters so that their length is what the schema checks.
NoKey == <<"absent">>
Inputs ==
  { [targetKey |-> <<"A">>, pressedKey |-> <<"A">>, isCorrect |-> TRUE, responseTime |-> 2],
    [targetKey |-> <<"A">>, pressedKey |-> <<"B">>, isCorrect |-> FALSE, responseTime |-> 4],
    [targetKey |-> <<"A">>, pressedKey |-> <<"A">>, isCorrect |-> TRUE, responseTime |-> 0],
    [targetKey |-> <<"A">>, pressedKey |-> <<"A">>, isCorrect |-> TRUE, responseTime |-> -1],
    [targetKey |-> <<"A", "B">>, pressedKey |-> <<"A">>, isCorrect |-> FALSE, responseTime |-> 2],
    [targetKey |-> <<"A">>, pressedKey |-> <<"A", "B">>, isCorrect |-> FALSE, responseTime |-> 2] }
NoInput == [targetKey |-> <<>>, pressedKey |-> NoKey, isCorrect |-> FALSE, responseTime |-> 0]

\* the schema with responseTime nonnegative() instead of positive()
recordKeyPressSchemaNonNegative(input) ==
  /\ Len(input.targetKey) = 1
  /\ (input.pressedKey = NoKey \/ Len(input.pressedKey) = 1)
  /\ input.responseTime \in Int
  /\ input.responseTime >= 0
  /\ input.isCorrect \in BOOLEAN

\* z.object({targetKey: string.length(1), pressedKey: string.length(1).optional(),
\*           responseTime: number.int.positive, isCorrect: boolean})
recordKeyPressSchema(input) ==
  /\ Len(input.targetKey) = 1
  /\ (input.pressedKey = NoKey \/ Len(input.pressedKey) = 1)
  /\ input.responseTime \in Int
  /\ input.responseTime > 0
  /\ input.isCorrect \in BOOLEAN

\* ---------------------------------------------------------- key sequence
\* sessionRepository.generateKeySequence: 200 draws of
\* keys[Math.floor(Math.random() * keys.length)].  Math.random is a
\* pseudo-random generator; its state is the variable rng, a draw is
\* rng / RandomModulus, and each draw advances the state.
SequenceLength == 200
RandomModulus == 32768
Keys ==
  <<"A", "B", "C", "D", "E", "F", "G", "H", "I", "J", "K", "L", "M",
    "N", "O", "P", "Q", "R", "S", "T", "U", "V", "W", "X", "Y", "Z">>

NextRandom(x) == (x * 25173 + 13849) % RandomModulus

\* n steps of the generator as one affine map <<a, c>>: x |-> a * x + c
Compose(f, g) ==
  <<(f[1] * g[1]) % RandomModulus, (f[2] * g[1] + g[2]) % RandomModulus>>

RECURSIVE Steps(_)
Steps(n) ==
  IF n = 0 THEN <<1, 0>>
  ELSE IF n = 1
    THEN <<(NextRandom(1) - NextRandom(0)) % RandomModulus, NextRandom(0)>>
    ELSE Compose(Steps(n \div 2), Steps(n - (n \div 2)))

StepTable == [n \in 0..SequenceLength |-> Steps(n)]

\* the generator's state after n draws
Advance(x, n) == (StepTable[n][1] * x + StepTable[n][2]) % RandomModulus

\* Math.floor(Math.random() * keys.length), Math.random() being x / 2^15
RandomIndex(x) == (x * Len(Keys)) \div RandomModulus

\* the keys pushed by n iterations of the loop
Draws(x, n) == [i \in 1..n |-> Keys[RandomIndex(Advance(x, i - 1)) + 1]]

\* the loop stopping one iteration early
generateKeySequenceShort(x) == Draws(x, SequenceLength - 1)

generateKeySequence(x) == Draws(x, SequenceLength)

\* JSON.stringify of an array of strings: ["A","B",...]
RECURSIVE JoinQuoted(_)
JoinQuoted(seq) ==
  IF seq = <<>> THEN ""
  ELSE IF Len(seq) = 1 THEN "\"" \o seq[1] \o "\""
  ELSE JoinQuoted(SubSeq(seq, 1, Len(seq) \div 2)) \o "," \o
       JoinQuoted(SubSeq(seq, (Len(seq) \div 2) + 1, Len(seq)))
JSONstringify(seq) == "[" \o JoinQuoted(seq) \o "]"

\* JSON.parse of the text of an array of one-character strings: the
\* characters between the quotes, in order
JSONparse(text) ==
  [i \in 1..((Len(text) - 1) \div 4) |-> SubSeq(text, 4 * i - 1, 4 * i - 1)]

\* first values of the generator: its least and greatest among others
Seeds == {0, 1, RandomModulus \div 2, RandomModulus - 1}

\* the generator's state when session i is created, having started at x
RECURSIVE SeedAfter(_, _)
SeedAfter(x, i) == IF i = 1 THEN x ELSE Advance(SeedAfter(x, i - 1), SequenceLength)
SeedOf(i) == SeedAfter(0, i)

\* JSON.stringify(generateKeySequence()) at the generator states the stores
\* below pass through, each generated once
SequenceTable ==
  [x \in {SeedAfter(seed, i) : seed \in Seeds, i \in 1..(MaxHistory + 1)} |->
     JSONstringify(generateKeySequence(x))]

\* createSession: const keySequence = generateKeySequence();
\*                keySequence: JSON.stringify(keySequence)
StoredSequence(x) ==
  IF x \in DOMAIN SequenceTable THEN SequenceTable[x]
  ELSE JSONstringify(generateKeySequence(x))

\* JSON.parse(session.keySequence), each stored text parsed once
ParseTable ==
  [text \in {SequenceTable[x] : x \in DOMAIN SequenceTable} |-> JSONparse(text)]

ParsedSequence(text) ==
  IF text \in DOMAIN ParseTable THEN ParseTable[text] ELSE JSONparse(text)

\* ----------------------------------------------------------------- users
\* utils/auth.ts: bcrypt.hash and bcrypt.compare; a hash is not the password,
\* and it matches the password it was made from and no other
hashPassword(password) == <<"bcrypt", password>>
comparePassword(password, hashedPassword) == hashedPassword = <<"bcrypt", password>>
\* utils/auth.ts: jwt.sign of the payload
generateToken(payload) == <<"jwt", payload.userId, payload.email>>

\* prisma/seed.ts (test@example.com) and test-api.ts register (john@example.com)
SeedUsers ==
  { [id |-> "testuser", email |-> "test@example.com", username |-> "testuser",
     password |-> hashPassword("testpassword123")],
    [id |-> "johndoe", email |-> "john@example.com", username |-> "johndoe",
     password |-> hashPassword("password123")] }

\* the bodies POST /register is called with (test-api.ts, seed.ts), and one
\* that takes the email of the one and the username of the other
RegisterInputs ==
  { [email |-> "test@example.com", username |-> "testuser", password |-> "testpassword123"],
    [email |-> "john@example.com", username |-> "johndoe", password |-> "password123"],
    [email |-> "john@example.com", username |-> "testuser", password |-> "password123"] }

\* the bodies POST /login is called with: the email of either user with the
\* password of either user
LoginInputs ==
  { [email |-> e, password |-> p] :
      e \in {"test@example.com", "john@example.com"},
      p \in {"testpassword123", "password123"} }
NoUserRow == [id |-> "", email |-> "", username |-> "", password |-> <<>>]

\* ----------------------------------------------------------------- state
VARIABLES
  sessions,       \* typing_sessions in insertion (startedAt) order: row i has id i
  typingResults,  \* typing_results in insertion (keyPressedAt) order
  stats,          \* user_statistics: one row per user
  clock,          \* the value `new Date()` yields; it advances with every session close
  pc,             \* per request: the await it is suspended at
  call,           \* per request: operation and arguments
  local,          \* per request: local variables that live across awaits
  last,           \* the request that returned in the latest step, with its response
  folded,         \* history: per session, the statistics writes made on its behalf
                  \* (how many, and the key presses they added)
  users,          \* users table
  rng             \* state of the generator behind Math.random

vars == <<sessions, typingResults, stats, clock, pc, call, local, last, folded, users, rng>>

\* user_statistics column defaults (created with the user)
ZeroStatistics ==
  [totalSessions |-> 0, totalKeyPresses |-> 0, correctKeyPresses |-> 0,
   averageKPM |-> RZero, bestKPM |-> RZero,
   averageAccuracy |-> RZero, bestAccuracy |-> RZero,
   averageResponseTime |-> RZero, bestResponseTime |-> RZero,
   lastSessionAt |-> Null]

NoSummary ==
  [totalKeyPresses |-> 0, correctKeyPresses |-> 0, averageResponseTime |-> RZero,
   kpm |-> RZero, accuracy |-> RZero]
NoLocal == [sessionData |-> NoSummary, currentStats |-> ZeroStatistics, user |-> NoUserRow]
NoCall == [op |-> "none", userId |-> NoUser, sessionId |-> 0, input |-> NoInput]
NoReturn == [call |-> NoCall, resp |-> NoResponse]

Init ==
  /\ sessions = <<>>
  /\ typingResults = <<>>
  /\ stats = [u \in Users |-> ZeroStatistics]
  /\ clock = 1
  /\ pc = [r \in Requests |-> "idle"]
  /\ call = [r \in Requests |-> NoCall]
  /\ local = [r \in Requests |-> NoLocal]
  /\ last = NoReturn
  /\ folded = [s \in SessionIds |-> [times |-> 0, keyPresses |-> 0]]
  /\ users = SeedUsers
  /\ rng = 0

\* the ids of the registered users
UserIds == {u.id : u \in users}

\* ------------------------------------------------------ repository reads
SessionRows == DOMAIN sessions

\* getActiveSession with the status filter misspelt: no row ever matches
getActiveSessionWrongStatus(userId) ==
  LET active == {s \in SessionRows :
                   sessions[s].userId = userId /\ sessions[s].status = "active"}
  IN IF active = {} THEN Null
     ELSE CHOOSE s \in active :
            \A o \in active : sessions[o].startedAt <= sessions[s].startedAt

\* sessionRepository.getActiveSession: findFirst({userId, status: 'in_progress'},
\* orderBy startedAt desc); Null when no row matches.
getActiveSession(userId) ==
  LET active == {s \in SessionRows :
                   sessions[s].userId = userId /\ sessions[s].status = "in_progress"}
  IN IF active = {} THEN Null
     ELSE CHOOSE s \in active :
            \A o \in active : sessions[o].startedAt <= sessions[s].startedAt

\* sessionRepository.getSessionById: findUnique({id}); Null when absent.
getSessionById(sessionId) ==
  IF sessionId \in SessionRows THEN sessionId ELSE Null

\* the orders a query without orderBy may return rows in
Orderings(rows) ==
  { [i \in DOMAIN rows |-> rows[p[i]]] :
      p \in {q \in [DOMAIN rows -> DOMAIN rows] :
               \A i, j \in DOMAIN rows : q[i] = q[j] => i = j} }

\* getSessionById's include: { typingResults: true }: the session's rows,
\* in no stated order
includeTypingResults(sessionId) ==
  Orderings(SelectSeq(typingResults, LAMBDA row : row.sessionId = sessionId))

\* getSessionResults without the `where: { sessionId }` filter
getSessionResultsAnySession(sessionId) == typingResults

\* sessionRepository.getSessionResults: findMany({sessionId}, orderBy keyPressedAt asc)
getSessionResults(sessionId) ==
  SelectSeq(typingResults, LAMBDA row : row.sessionId = sessionId)

\* ------------------------------------------------------ pure computation
RECURSIVE SumResponseTime(_)
SumResponseTime(results) ==
  IF results = <<>> THEN 0
  ELSE Head(results).responseTime + SumResponseTime(Tail(results))

\* the summary with kpm taken from all key presses instead of the correct ones
SessionDataKpmOfTotal(results, duration) ==
  LET totalKeyPresses == Len(results)
      correctKeyPresses == Len(SelectSeq(results, LAMBDA r : r.isCorrect))
      accuracy == RMul(Rat(correctKeyPresses, totalKeyPresses), RInt(100))
      totalResponseTime == SumResponseTime(results)
      averageResponseTime == Rat(totalResponseTime, totalKeyPresses)
      sessionDurationMinutes == Rat(duration, 60)
      kpm == RDiv(RInt(totalKeyPresses), sessionDurationMinutes)
  IN [totalKeyPresses |-> totalKeyPresses, correctKeyPresses |-> correctKeyPresses,
      averageResponseTime |-> averageResponseTime, kpm |-> kpm, accuracy |-> accuracy]

\* sessionService.endSession, "Calculate statistics"
SessionData(results, duration) ==
  LET totalKeyPresses == Len(results)
      correctKeyPresses == Len(SelectSeq(results, LAMBDA r : r.isCorrect))
      accuracy == RMul(Rat(correctKeyPresses, totalKeyPresses), RInt(100))
      totalResponseTime == SumResponseTime(results)
      averageResponseTime == Rat(totalResponseTime, totalKeyPresses)
      sessionDurationMinutes == Rat(duration, 60)
      kpm == RDiv(RInt(correctKeyPresses), sessionDurationMinutes)
  IN [totalKeyPresses |-> totalKeyPresses, correctKeyPresses |-> correctKeyPresses,
      averageResponseTime |-> averageResponseTime, kpm |-> kpm, accuracy |-> accuracy]

\* updateUserStatistics with totalSessions left out of the update's data
NewStatisticsNoCount(currentStats, sessionData, now) ==
  [currentStats EXCEPT
     !.totalKeyPresses = @ + sessionData.totalKeyPresses,
     !.correctKeyPresses = @ + sessionData.correctKeyPresses,
     !.lastSessionAt = now]

\* updateUserStatistics with the averages weighted by key presses instead of
\* by sessions
NewStatisticsKeyWeighted(currentStats, sessionData, now) ==
  LET newTotalSessions == currentStats.totalSessions + 1
      newTotalKeyPresses == currentStats.totalKeyPresses + sessionData.totalKeyPresses
      weight == RInt(currentStats.totalKeyPresses)
      mean(avg, x) == RDiv(RAdd(RMul(avg, weight), RMul(x, RInt(sessionData.totalKeyPresses))),
                           RInt(newTotalKeyPresses))
  IN [totalSessions |-> newTotalSessions,
      totalKeyPresses |-> newTotalKeyPresses,
      correctKeyPresses |-> currentStats.correctKeyPresses + sessionData.correctKeyPresses,
      averageKPM |-> mean(currentStats.averageKPM, sessionData.kpm),
      bestKPM |-> RMax(currentStats.bestKPM, sessionData.kpm),
      averageAccuracy |-> mean(currentStats.averageAccuracy, sessionData.accuracy),
      bestAccuracy |-> RMax(currentStats.bestAccuracy, sessionData.accuracy),
      averageResponseTime |-> mean(currentStats.averageResponseTime, sessionData.averageResponseTime),
      bestResponseTime |->
        IF currentStats.bestResponseTime = RZero
        THEN sessionData.averageResponseTime
        ELSE RMin(currentStats.bestResponseTime, sessionData.averageResponseTime),
      lastSessionAt |-> now]

\* updateUserStatistics with bestResponseTime always the minimum (no sentinel)
NewStatisticsBestMin(currentStats, sessionData, now) ==
  LET newTotalSessions == currentStats.totalSessions + 1
      weight == RInt(currentStats.totalSessions)
      mean(avg, x) == RDiv(RAdd(RMul(avg, weight), x), RInt(newTotalSessions))
  IN [totalSessions |-> newTotalSessions,
      totalKeyPresses |-> currentStats.totalKeyPresses + sessionData.totalKeyPresses,
      correctKeyPresses |-> currentStats.correctKeyPresses + sessionData.correctKeyPresses,
      averageKPM |-> mean(currentStats.averageKPM, sessionData.kpm),
      bestKPM |-> RMax(currentStats.bestKPM, sessionData.kpm),
      averageAccuracy |-> mean(currentStats.averageAccuracy, sessionData.accuracy),
      bestAccuracy |-> RMax(currentStats.bestAccuracy, sessionData.accuracy),
      averageResponseTime |-> mean(currentStats.averageResponseTime, sessionData.averageResponseTime),
      bestResponseTime |-> RMin(currentStats.bestResponseTime, sessionData.averageResponseTime),
      lastSessionAt |-> now]

\* statisticsRepository.updateUserStatistics: the row written from the row read
NewStatistics(currentStats, sessionData, now) ==
  LET newTotalSessions == currentStats.totalSessions + 1
      weight == RInt(currentStats.totalSessions)
      mean(avg, x) == RDiv(RAdd(RMul(avg, weight), x), RInt(newTotalSessions))
  IN [totalSessions |-> newTotalSessions,
      totalKeyPresses |-> currentStats.totalKeyPresses + sessionData.totalKeyPresses,
      correctKeyPresses |-> currentStats.correctKeyPresses + sessionData.correctKeyPresses,
      averageKPM |-> mean(currentStats.averageKPM, sessionData.kpm),
      bestKPM |-> RMax(currentStats.bestKPM, sessionData.kpm),
      averageAccuracy |-> mean(currentStats.averageAccuracy, sessionData.accuracy),
      bestAccuracy |-> RMax(currentStats.bestAccuracy, sessionData.accuracy),
      averageResponseTime |-> mean(currentStats.averageResponseTime, sessionData.averageResponseTime),
      bestResponseTime |->
        IF currentStats.bestResponseTime = RZero
        THEN sessionData.averageResponseTime
        ELSE RMin(currentStats.bestResponseTime, sessionData.averageResponseTime),
      lastSessionAt |-> now]

\* --------------------------------------------------------- request steps
Idle(r) == pc[r] = "idle"
InFlight(r) == ~Idle(r)
\* requests are anonymous: a new one takes the first handler that is not running
Free(r) == Idle(r) /\ \A q \in Requests : q < r => InFlight(q)

\* the request returns: its response is sent and its locals are gone
Return(r, c, response) ==
  /\ pc' = [pc EXCEPT ![r] = "idle"]
  /\ call' = [call EXCEPT ![r] = NoCall]
  /\ local' = [local EXCEPT ![r] = NoLocal]
  /\ last' = [call |-> c, resp |-> response]

\* the request awaits the store operation `at`
Suspend(r, c, at) ==
  /\ pc' = [pc EXCEPT ![r] = at]
  /\ call' = [call EXCEPT ![r] = c]
  /\ last' = NoReturn

Pending(at) == Cardinality({q \in Requests : pc[q] = at})

StartCall(userId) == [NoCall EXCEPT !.op = "startSession", !.userId = userId]
RecordCall(sessionId, userId, input) ==
  [op |-> "recordKeyPress", userId |-> userId, sessionId |-> sessionId, input |-> input]
EndCall(sessionId, userId) ==
  [NoCall EXCEPT !.op = "endSession", !.userId = userId, !.sessionId = sessionId]
GetCall(sessionId, userId) ==
  [NoCall EXCEPT !.op = "getSession", !.userId = userId, !.sessionId = sessionId]

\* startSession without the active-session lookup
startSessionUnchecked(r, userId) ==
  /\ Free(r)
  /\ Len(sessions) + Pending("createSession") < MaxSessions
  /\ Suspend(r, StartCall(userId), "createSession")
  /\ UNCHANGED <<sessions, typingResults, stats, clock, local, folded, users, rng>>

\* POST /start: sessionService.startSession up to the await of createSession
startSession(r, userId) ==
  /\ Free(r)
  /\ Len(sessions) + Pending("createSession") < MaxSessions
  /\ IF getActiveSession(userId) # Null
     THEN Return(r, StartCall(userId), ActiveSessionExists)
     ELSE Suspend(r, StartCall(userId), "createSession") /\ UNCHANGED local
  /\ UNCHANGED <<sessions, typingResults, stats, clock, folded, users, rng>>

\* sessionRepository.createSession and the rest of startSession
createSession(r) ==
  /\ pc[r] = "createSession"
  /\ sessions' = Append(sessions,
       [userId |-> call[r].userId, status |-> "in_progress",
        startedAt |-> clock, endedAt |-> Null, duration |-> DefaultDuration,
        keySequence |-> StoredSequence(rng)])
  /\ rng' = Advance(rng, SequenceLength)
  /\ Return(r, call[r], Created)
  /\ UNCHANGED <<typingResults, stats, clock, folded, users>>

\* POST /:sessionId/keypress: sessionController.recordKeyPress (schema parse)
\* and sessionService.recordKeyPress up to the await of the insert
recordKeyPress(r, sessionId, userId, input) ==
  /\ Free(r)
  /\ Len(typingResults) + Pending("recordKeyPress") < MaxResults
  /\ LET c == RecordCall(sessionId, userId, input)
     IN IF ~recordKeyPressSchema(input) THEN Return(r, c, ZodValidation)
        ELSE IF getSessionById(sessionId) = Null THEN Return(r, c, SessionNotFound)
        ELSE IF sessions[sessionId].userId # userId THEN Return(r, c, NoPermission)
        ELSE IF sessions[sessionId].status # "in_progress" THEN Return(r, c, SessionNotActive)
        ELSE Suspend(r, c, "recordKeyPress") /\ UNCHANGED local
  /\ UNCHANGED <<sessions, typingResults, stats, clock, folded, users, rng>>


\* sessionRepository.recordKeyPress deriving isCorrect from the two keys
repoRecordKeyPressRecomputed(r) ==
  /\ pc[r] = "recordKeyPress"
  /\ typingResults' = Append(typingResults,
       [sessionId |-> call[r].sessionId,
        targetKey |-> call[r].input.targetKey,
        pressedKey |-> call[r].input.pressedKey,
        isCorrect |-> (call[r].input.pressedKey = call[r].input.targetKey),
        responseTime |-> call[r].input.responseTime])
  /\ Return(r, call[r], Created)
  /\ UNCHANGED <<sessions, stats, clock, folded, users, rng>>

\* the insert together with a live update of the owner's key press totals
repoRecordKeyPressLiveStats(r) ==
  /\ pc[r] = "recordKeyPress"
  /\ typingResults' = Append(typingResults,
       [sessionId |-> call[r].sessionId,
        targetKey |-> call[r].input.targetKey,
        pressedKey |-> call[r].input.pressedKey,
        isCorrect |-> call[r].input.isCorrect,
        responseTime |-> call[r].input.responseTime])
  /\ stats' = [stats EXCEPT ![call[r].userId].totalKeyPresses = @ + 1]
  /\ Return(r, call[r], Created)
  /\ UNCHANGED <<sessions, clock, folded, users, rng>>

\* sessionRepository.recordKeyPress and the rest of the service function
repoRecordKeyPress(r) ==
  /\ pc[r] = "recordKeyPress"
  /\ typingResults' = Append(typingResults,
       [sessionId |-> call[r].sessionId,
        targetKey |-> call[r].input.targetKey,
        pressedKey |-> call[r].input.pressedKey,
        isCorrect |-> call[r].input.isCorrect,
        responseTime |-> call[r].input.responseTime])
  /\ Return(r, call[r], Created)
  /\ UNCHANGED <<sessions, stats, clock, folded, users, rng>>

\* endSession without the `status !== 'in_progress'` check
endSessionAnyStatus(r, sessionId, userId) ==
  /\ Free(r)
  /\ LET c == EndCall(sessionId, userId)
     IN IF getSessionById(sessionId) = Null THEN Return(r, c, SessionNotFound)
        ELSE IF sessions[sessionId].userId # userId THEN Return(r, c, NoPermission)
        ELSE Suspend(r, c, "getSessionResults") /\ UNCHANGED local
  /\ UNCHANGED <<sessions, typingResults, stats, clock, folded, users, rng>>

\* POST /:sessionId/end: sessionService.endSession up to the await of
\* getSessionResults
endSession(r, sessionId, userId) ==
  /\ Free(r)
  /\ LET c == EndCall(sessionId, userId)
     IN IF getSessionById(sessionId) = Null THEN Return(r, c, SessionNotFound)
        ELSE IF sessions[sessionId].userId # userId THEN Return(r, c, NoPermission)
        ELSE IF sessions[sessionId].status # "in_progress" THEN Return(r, c, SessionNotActive)
        ELSE Suspend(r, c, "getSessionResults") /\ UNCHANGED local
  /\ UNCHANGED <<sessions, typingResults, stats, clock, folded, users, rng>>

\* endSession without the `results.length === 0` check
endSessionResultsUnchecked(r) ==
  /\ pc[r] = "getSessionResults"
  /\ Suspend(r, call[r], "endSession")
  /\ local' = [local EXCEPT ![r].sessionData =
                 SessionData(getSessionResults(call[r].sessionId),
                             sessions[call[r].sessionId].duration)]
  /\ UNCHANGED <<sessions, typingResults, stats, clock, folded, users, rng>>

\* getSessionResults resolves; the summary is computed; endSession is awaited
endSessionResults(r) ==
  /\ pc[r] = "getSessionResults"
  /\ LET results == getSessionResults(call[r].sessionId)
     IN IF Len(results) = 0 THEN Return(r, call[r], NoKeyPresses)
        ELSE /\ Suspend(r, call[r], "endSession")
             /\ local' = [local EXCEPT ![r].sessionData =
                            SessionData(results, sessions[call[r].sessionId].duration)]
  /\ UNCHANGED <<sessions, typingResults, stats, clock, folded, users, rng>>

\* sessionRepository.endSession: update({id}, {status: 'completed', endedAt: new Date()})
repoEndSession(r) ==
  /\ pc[r] = "endSession"
  /\ sessions' = [sessions EXCEPT ![call[r].sessionId].status = "completed",
                                  ![call[r].sessionId].endedAt = clock]
  /\ clock' = clock + 1
  /\ Suspend(r, call[r], "getUserStatistics")
  /\ UNCHANGED <<typingResults, stats, local, folded, users, rng>>

\* updateUserStatistics: getUserStatistics resolves, the new row is computed
getUserStatistics(r) ==
  /\ pc[r] = "getUserStatistics"
  /\ IF call[r].userId \notin DOMAIN stats
     THEN Return(r, call[r], StatisticsMissing)
     ELSE /\ Suspend(r, call[r], "updateUserStatistics")
          /\ local' = [local EXCEPT ![r].currentStats = stats[call[r].userId]]
  /\ UNCHANGED <<sessions, typingResults, stats, clock, folded, users, rng>>

\* updateUserStatistics: prisma.userStatistics.update, and endSession returns
updateUserStatistics(r) ==
  /\ pc[r] = "updateUserStatistics"
  /\ stats' = [stats EXCEPT ![call[r].userId] =
                 NewStatistics(local[r].currentStats, local[r].sessionData, clock)]
  /\ folded' = [folded EXCEPT ![call[r].sessionId] =
                   [times |-> @.times + 1,
                    keyPresses |-> @.keyPresses + local[r].sessionData.totalKeyPresses]]
  /\ Return(r, call[r], Ok)
  /\ UNCHANGED <<sessions, typingResults, clock, users, rng>>

\* GET /:sessionId: sessionService.getSession (one store read)
getSession(r, sessionId, userId) ==
  /\ Free(r)
  /\ LET c == GetCall(sessionId, userId)
     IN IF getSessionById(sessionId) = Null THEN Return(r, c, SessionNotFound)
        ELSE IF sessions[sessionId].userId # userId THEN Return(r, c, NoPermission)
        ELSE \E results \in includeTypingResults(sessionId) :
               Return(r, c, OkWith(
                 [id |-> sessionId,
                  userId |-> sessions[sessionId].userId,
                  startedAt |-> sessions[sessionId].startedAt,
                  endedAt |-> sessions[sessionId].endedAt,
                  status |-> sessions[sessionId].status,
                  duration |-> sessions[sessionId].duration,
                  keySequence |-> ParsedSequence(sessions[sessionId].keySequence),
                  results |-> results]))
  /\ UNCHANGED <<sessions, typingResults, stats, clock, folded, users, rng>>

\* ------------------------------------------------------------- history
\* req.query of GET /api/sessions: the limit parameter is a string, or is not there
Queries ==
  { [page |-> "1"], [limit |-> ""], [limit |-> "0"], [limit |-> "5"],
    [limit |-> "11"], [limit |-> "-1"], [limit |-> "3abc"], [limit |-> "abc"] }

\* a JS number: an integer or NaN
Number(n) == [nan |-> FALSE, int |-> n]
NaN == [nan |-> TRUE, int |-> 0]
Digits == <<"0", "1", "2", "3", "4", "5", "6", "7", "8", "9">>
IsDigit(c) == \E k \in DOMAIN Digits : Digits[k] = c
DigitValue(c) == (CHOOSE k \in DOMAIN Digits : Digits[k] = c) - 1

\* the index after the run of digits that begins at index i
RECURSIVE DigitsEnd(_, _)
DigitsEnd(text, i) ==
  IF i <= Len(text) /\ IsDigit(SubSeq(text, i, i)) THEN DigitsEnd(text, i + 1) ELSE i

RECURSIVE Decimal(_)
Decimal(digits) ==
  IF digits = "" THEN 0
  ELSE Decimal(SubSeq(digits, 1, Len(digits) - 1)) * 10
         + DigitValue(SubSeq(digits, Len(digits), Len(digits)))

\* parseInt(text) of a string without leading blanks: an optional minus sign
\* and the longest run of digits after it; NaN when there is no digit
parseInt(text) ==
  LET negative == Len(text) > 0 /\ SubSeq(text, 1, 1) = "-"
      first == IF negative THEN 2 ELSE 1
      end == DigitsEnd(text, first)
  IN IF end = first THEN NaN
     ELSE IF negative THEN Number(0 - Decimal(SubSeq(text, first, end - 1)))
     ELSE Number(Decimal(SubSeq(text, first, end - 1)))

\* req.query.limit ? parseInt(req.query.limit) : 10
LimitOf(query) ==
  IF "limit" \in DOMAIN query /\ query.limit # "" THEN parseInt(query.limit) ELSE Number(10)

\* orderBy: { startedAt: 'desc' } over a set of session ids
RECURSIVE OrderByStartedAtDesc(_)
OrderByStartedAtDesc(S) ==
  IF S = {} THEN <<>>
  ELSE LET newest == CHOOSE s \in S :
                       \A t \in S : sessions[t].startedAt <= sessions[s].startedAt
       IN <<newest>> \o OrderByStartedAtDesc(S \ {newest})

\* take: the first `limit` of the list, or its last -limit when limit < 0
Take(list, limit) ==
  IF limit >= 0
  THEN SubSeq(list, 1, IF limit < Len(list) THEN limit ELSE Len(list))
  ELSE SubSeq(list, (IF 0 - limit < Len(list) THEN Len(list) + limit ELSE 0) + 1, Len(list))

\* sessionRepository.getUserSessions: the caller's sessions with their results
getUserSessions(userId, limit) ==
  LET found == Take(OrderByStartedAtDesc(
                      {s \in DOMAIN sessions : sessions[s].userId = userId}), limit)
  IN [i \in DOMAIN found |->
        [id |-> found[i],
         session |-> sessions[found[i]],
         typingResults |-> SelectSeq(typingResults, LAMBDA row : row.sessionId = found[i])]]

\* sessionService.getUserSessionHistory: the summary of each session found
getUserSessionHistory(userId, limit) ==
  LET found == getUserSessions(userId, limit)
  IN [i \in DOMAIN found |->
        [id |-> found[i].id,
         startedAt |-> found[i].session.startedAt,
         endedAt |-> found[i].session.endedAt,
         status |-> found[i].session.status,
         duration |-> found[i].session.duration,
         totalKeyPresses |-> Len(found[i].typingResults),
         correctKeyPresses |->
           Len(SelectSeq(found[i].typingResults, LAMBDA row : row.isCorrect))]]

HistoryCall(userId, query) ==
  [NoCall EXCEPT !.op = "getHistory", !.userId = userId, !.input = query]

\* GET /api/sessions: sessionController.getSessionHistory (one store read); a
\* limit that is not a number is rejected by the store
getSessionHistory(r, userId, query) ==
  /\ Free(r)
  /\ LET c == HistoryCall(userId, query)
         limit == LimitOf(query)
     IN IF limit.nan THEN Return(r, c, StoreError)
        ELSE Return(r, c, OkWith(getUserSessionHistory(userId, limit.int)))
  /\ UNCHANGED <<sessions, typingResults, stats, clock, folded, users, rng>>

\* GET /statistics: statisticsController.getStatistics (one store read)
getStatistics(r, userId) ==
  /\ Free(r)
  /\ LET c == [NoCall EXCEPT !.op = "getStatistics", !.userId = userId]
     IN IF userId \notin DOMAIN stats THEN Return(r, c, StatisticsNotFound)
        ELSE Return(r, c, Ok)
  /\ UNCHANGED <<sessions, typingResults, stats, clock, folded, users, rng>>

RegisterCall(input) == [NoCall EXCEPT !.op = "register", !.input = input]

\* POST /register: authService.register up to the await of findUserByEmail
register(r, input) ==
  /\ Free(r)
  /\ Suspend(r, RegisterCall(input), "findUserByEmail")
  /\ UNCHANGED <<sessions, typingResults, stats, clock, local, folded, users, rng>>

\* register: findUserByEmail resolves
findUserByEmail(r) ==
  /\ pc[r] = "findUserByEmail"
  /\ IF \E u \in users : u.email = call[r].input.email
     THEN Return(r, call[r], EmailRegistered)
     ELSE Suspend(r, call[r], "findUserByUsername") /\ UNCHANGED local
  /\ UNCHANGED <<sessions, typingResults, stats, clock, folded, users, rng>>

\* register: findUserByUsername resolves, the password is hashed
findUserByUsername(r) ==
  /\ pc[r] = "findUserByUsername"
  /\ IF \E u \in users : u.username = call[r].input.username
     THEN Return(r, call[r], UsernameTaken)
     ELSE Suspend(r, call[r], "createUser") /\ UNCHANGED local
  /\ UNCHANGED <<sessions, typingResults, stats, clock, folded, users, rng>>

\* the users row of a body; the username stands for the generated id
UserRow(input) ==
  [id |-> input.username, email |-> input.email, username |-> input.username,
   password |-> hashPassword(input.password)]

\* users_email_key and users_username_key admit the row
Admits(input) ==
  \A u \in users : u.email # input.email /\ u.username # input.username

\* prisma.user.create without the nested statistics create
InsertUserNoStatistics(input) ==
  /\ users' = users \cup {UserRow(input)}
  /\ UNCHANGED stats

\* prisma.user.create with the nested statistics create: both rows or none
InsertUser(input) ==
  /\ users' = users \cup {UserRow(input)}
  /\ stats' = [u \in DOMAIN stats \cup {UserRow(input).id} |->
                 IF u \in DOMAIN stats THEN stats[u] ELSE ZeroStatistics]

\* createUser on a users table without its two unique indexes
createUserUnindexed(r) ==
  /\ pc[r] = "createUser"
  /\ InsertUser(call[r].input) /\ Return(r, call[r], Created)
  /\ UNCHANGED <<sessions, typingResults, clock, folded, rng>>

\* userRepository.createUser and the rest of register
createUser(r) ==
  /\ pc[r] = "createUser"
  /\ IF Admits(call[r].input)
     THEN InsertUser(call[r].input) /\ Return(r, call[r], Created)
     ELSE Return(r, call[r], UniqueConstraintFailed) /\ UNCHANGED <<users, stats>>
  /\ UNCHANGED <<sessions, typingResults, clock, folded, rng>>

\* ---------------------------------------------------------------- login
LoginCall(input) == [NoCall EXCEPT !.op = "login", !.input = input]

\* userRepository.findUserByEmail on a users table: the row, or none
UserByEmail(table, email) ==
  IF \E u \in table : u.email = email
  THEN CHOOSE u \in table : u.email = email
  ELSE NoUserRow

\* what login returns for the user row it found and the password it was sent
LoginResponse(user, password) ==
  IF user = NoUserRow THEN InvalidCredentials
  ELSE IF ~comparePassword(password, user.password) THEN InvalidCredentials
  ELSE OkWith([token |-> generateToken([userId |-> user.id, email |-> user.email]),
               user |-> [id |-> user.id, email |-> user.email, username |-> user.username]])

\* POST /login: authService.login up to the await of findUserByEmail
login(r, input) ==
  /\ Free(r)
  /\ Suspend(r, LoginCall(input), "loginFindUserByEmail")
  /\ UNCHANGED <<sessions, typingResults, stats, clock, local, folded, users, rng>>

\* login with an answer of its own for an email that is not registered
loginFindUserByEmailTelling(r) ==
  /\ pc[r] = "loginFindUserByEmail"
  /\ LET user == UserByEmail(users, call[r].input.email)
     IN IF user = NoUserRow
        THEN Return(r, call[r], [code |-> 401, message |-> "Email not registered"])
        ELSE /\ Suspend(r, call[r], "comparePassword")
             /\ local' = [local EXCEPT ![r].user = user]
  /\ UNCHANGED <<sessions, typingResults, stats, clock, folded, users, rng>>

\* login: findUserByEmail resolves
loginFindUserByEmail(r) ==
  /\ pc[r] = "loginFindUserByEmail"
  /\ LET user == UserByEmail(users, call[r].input.email)
     IN IF user = NoUserRow
        THEN Return(r, call[r], LoginResponse(user, call[r].input.password))
        ELSE /\ Suspend(r, call[r], "comparePassword")
             /\ local' = [local EXCEPT ![r].user = user]
  /\ UNCHANGED <<sessions, typingResults, stats, clock, folded, users, rng>>

\* login: comparePassword resolves, and the rest of login
loginComparePassword(r) ==
  /\ pc[r] = "comparePassword"
  /\ Return(r, call[r], LoginResponse(local[r].user, call[r].input.password))
  /\ UNCHANGED <<sessions, typingResults, stats, clock, folded, users, rng>>

\* prisma/seed.ts: upsert of the test user by email
seed ==
  /\ LET input == [email |-> "test@example.com", username |-> "testuser",
                    password |-> "testpassword123"]
     IN IF (\A u \in users : u.email # input.email) /\ Admits(input)
        THEN InsertUser(input)
        ELSE UNCHANGED <<users, stats>>
  /\ last' = NoReturn
  /\ UNCHANGED <<sessions, typingResults, clock, pc, call, local, folded, rng>>

\* cleanup.ts without its `where: { status: 'in_progress' }` filter
cleanupAllSessions ==
  /\ sessions' = [s \in SessionRows |-> [sessions[s] EXCEPT !.status = "abandoned"]]
  /\ last' = NoReturn
  /\ UNCHANGED <<typingResults, stats, clock, pc, call, local, folded, users, rng>>

\* cleanup.ts with update of the first row found instead of updateMany
cleanupFirstOnly ==
  /\ sessions' = [s \in SessionRows |->
                    IF /\ sessions[s].status = "in_progress"
                       /\ \A t \in SessionRows :
                            sessions[t].status = "in_progress" => s <= t
                    THEN [sessions[s] EXCEPT !.status = "abandoned"]
                    ELSE sessions[s]]
  /\ last' = NoReturn
  /\ UNCHANGED <<typingResults, stats, clock, pc, call, local, folded, users, rng>>

\* cleanup.ts: updateMany({status: 'in_progress'}, {status: 'abandoned'})
cleanup ==
  /\ sessions' = [s \in SessionRows |->
                    IF sessions[s].status = "in_progress"
                    THEN [sessions[s] EXCEPT !.status = "abandoned"]
                    ELSE sessions[s]]
  /\ last' = NoReturn
  /\ UNCHANGED <<typingResults, stats, clock, pc, call, local, folded, users, rng>>

\* a pending store operation rejects (connection lost, statement timeout):
\* the exception propagates and the request returns an error
storeReject(r) ==
  /\ InFlight(r)
  /\ Return(r, call[r], StoreError)
  /\ UNCHANGED <<sessions, typingResults, stats, clock, folded, users, rng>>

\* -------------------------------------------------------- specifications
\* no request is in flight
Quiet == \A q \in Requests : Idle(q)

\* requests interleave at their awaits; every store operation resolves
Next ==
  \/ \E r \in Requests, u \in Users : startSession(r, u)
  \/ \E r \in Requests : createSession(r)
  \/ \E r \in Requests, s \in SessionIds, u \in Users, i \in Inputs : recordKeyPress(r, s, u, i)
  \/ \E r \in Requests : repoRecordKeyPress(r)
  \/ \E r \in Requests, s \in SessionIds, u \in Users : endSession(r, s, u)
  \/ \E r \in Requests : endSessionResults(r)
  \/ \E r \in Requests : repoEndSession(r)
  \/ \E r \in Requests : getUserStatistics(r)
  \/ \E r \in Requests : updateUserStatistics(r)
  \/ \E r \in Requests, s \in SessionIds, u \in Users : getSession(r, s, u)
  \/ cleanup

Spec == Init /\ [][Next]_vars

\* every request (and every run of cleanup.ts) runs to completion before the
\* next one begins
NextSerial ==
  \/ \E r \in Requests, u \in Users : Quiet /\ startSession(r, u)
  \/ \E r \in Requests : createSession(r)
  \/ \E r \in Requests, s \in SessionIds, u \in Users, i \in Inputs :
       Quiet /\ recordKeyPress(r, s, u, i)
  \/ \E r \in Requests : repoRecordKeyPress(r)
  \/ \E r \in Requests, s \in SessionIds, u \in Users : Quiet /\ endSession(r, s, u)
  \/ \E r \in Requests : endSessionResults(r)
  \/ \E r \in Requests : repoEndSession(r)
  \/ \E r \in Requests : getUserStatistics(r)
  \/ \E r \in Requests : updateUserStatistics(r)
  \/ \E r \in Requests, s \in SessionIds, u \in Users : Quiet /\ getSession(r, s, u)
  \/ Quiet /\ cleanup

SpecSerial == Init /\ [][NextSerial]_vars

\* requests interleave, and a pending store operation may reject
NextFault ==
  \/ Next
  \/ \E r \in Requests : storeReject(r)

SpecFault == Init /\ [][NextFault]_vars


\* The summary computation on its own: one open session of testuser that
\* already holds a list of recorded keystrokes, and endSession requests
\* made one after the other.
ResponseTimes == {100, 200, 300}
KeystrokeRows ==
  { [sessionId |-> 1, targetKey |-> <<"A">>,
     pressedKey |-> IF ok THEN <<"A">> ELSE <<"B">>,
     isCorrect |-> ok, responseTime |-> rt] : ok \in BOOLEAN, rt \in ResponseTimes }
KeystrokeLists == UNION {[1..n -> KeystrokeRows] : n \in 1..MaxKeys}

InitSummary ==
  /\ sessions = << [userId |-> "testuser", status |-> "in_progress",
                    startedAt |-> 1, endedAt |-> Null, duration |-> DefaultDuration,
                    keySequence |-> StoredSequence(0)] >>
  /\ typingResults \in KeystrokeLists
  /\ stats = [u \in Users |-> ZeroStatistics]
  /\ clock \in 1..2
  /\ pc = [r \in Requests |-> "idle"]
  /\ call = [r \in Requests |-> NoCall]
  /\ local = [r \in Requests |-> NoLocal]
  /\ last = NoReturn
  /\ folded = [s \in SessionIds |-> [times |-> 0, keyPresses |-> 0]]
  /\ users = SeedUsers
  /\ rng = Advance(0, SequenceLength)

NextSummary ==
  \/ \E r \in Requests, s \in SessionIds, u \in Users : Quiet /\ endSession(r, s, u)
  \/ \E r \in Requests : endSessionResults(r)
  \/ \E r \in Requests : repoEndSession(r)
  \/ \E r \in Requests : getUserStatistics(r)
  \/ \E r \in Requests : updateUserStatistics(r)

SpecSummary == InitSummary /\ [][NextSummary]_vars

\* Whole sessions played one after the other, as test-api.ts runTests does:
\* start, one keypress request per key, end, each awaited before the next
\* request is sent, and no other request in between.
ValidInputs == {i \in Inputs : recordKeyPressSchema(i)}
\* the keystroke of test-api.ts that hits its target
HitInputs == {i \in ValidInputs : i.isCorrect}
PlayLists == UNION {[1..n -> ValidInputs] : n \in 1..MaxPlayKeys}

InitFolds ==
  /\ sessions = <<>>
  /\ typingResults = <<>>
  /\ stats = [u \in Users |-> ZeroStatistics]
  /\ clock = 1
  /\ pc = [r \in Requests |-> "idle"]
  /\ call = [r \in Requests |-> NoCall]
  /\ local = [r \in Requests |-> NoLocal]
  /\ last = NoReturn
  /\ folded = [s \in 1..MaxFolds |-> [times |-> 0, keyPresses |-> 0]]
  /\ users = SeedUsers
  /\ rng = 0

\* startSession, recordKeyPress for each key, endSession, run to completion
playSession(userId, keys) ==
  /\ Quiet
  /\ Len(sessions) < MaxFolds
  /\ getActiveSession(userId) = Null
  /\ LET id == Len(sessions) + 1
         rows == [i \in DOMAIN keys |->
                    [sessionId |-> id,
                     targetKey |-> keys[i].targetKey,
                     pressedKey |-> keys[i].pressedKey,
                     isCorrect |-> keys[i].isCorrect,
                     responseTime |-> keys[i].responseTime]]
         results == SelectSeq(typingResults \o rows, LAMBDA row : row.sessionId = id)
         sessionData == SessionData(results, DefaultDuration)
     IN /\ sessions' = Append(sessions,
             [userId |-> userId, status |-> "completed",
              startedAt |-> clock, endedAt |-> clock, duration |-> DefaultDuration,
              keySequence |-> StoredSequence(rng)])
        /\ rng' = Advance(rng, SequenceLength)
        /\ typingResults' = typingResults \o rows
        /\ clock' = clock + 1
        /\ stats' = [stats EXCEPT ![userId] = NewStatistics(stats[userId], sessionData, clock + 1)]
        /\ folded' = [folded EXCEPT ![id] =
                        [times |-> 1, keyPresses |-> sessionData.totalKeyPresses]]
        /\ last' = [call |-> EndCall(id, userId), resp |-> Ok]
  /\ UNCHANGED <<pc, call, local, users>>

NextFolds == \E u \in Users, keys \in PlayLists : playSession(u, keys)

SpecFolds == InitFolds /\ [][NextFolds]_vars

\* the generator starts at any of Seeds; requests run one at a time
InitSequence ==
  /\ sessions = <<>>
  /\ typingResults = <<>>
  /\ stats = [u \in Users |-> ZeroStatistics]
  /\ clock = 1
  /\ pc = [r \in Requests |-> "idle"]
  /\ call = [r \in Requests |-> NoCall]
  /\ local = [r \in Requests |-> NoLocal]
  /\ last = NoReturn
  /\ folded = [s \in SessionIds |-> [times |-> 0, keyPresses |-> 0]]
  /\ users = SeedUsers
  /\ rng \in Seeds

NextSequence ==
  \/ \E r \in Requests, u \in Users : Quiet /\ startSession(r, u)
  \/ \E r \in Requests : createSession(r)
  \/ \E r \in Requests, s \in SessionIds, u \in Users, i \in HitInputs :
       Quiet /\ recordKeyPress(r, s, u, i)
  \/ \E r \in Requests : repoRecordKeyPress(r)
  \/ \E r \in Requests, s \in SessionIds, u \in Users : Quiet /\ endSession(r, s, u)
  \/ \E r \in Requests : endSessionResults(r)
  \/ \E r \in Requests : repoEndSession(r)
  \/ \E r \in Requests : getUserStatistics(r)
  \/ \E r \in Requests : updateUserStatistics(r)
  \/ \E r \in Requests, s \in SessionIds, u \in Users : Quiet /\ getSession(r, s, u)
  \/ Quiet /\ cleanup

SpecSequence == InitSequence /\ [][NextSequence]_vars

\* keystrokes whose flag agrees and disagrees with the keys: the pressed key
\* is the target or another key with isCorrect sent either way, or is absent
\* with isCorrect sent true
FlagInputs ==
  { [targetKey |-> <<"A">>, pressedKey |-> k[1], isCorrect |-> k[2], responseTime |-> 2] :
      k \in { <<<<"A">>, TRUE>>, <<<<"A">>, FALSE>>, <<<<"B">>, TRUE>>, <<<<"B">>, FALSE>>,
               <<NoKey, TRUE>> } }

\* sessions played with these keystrokes, one request at a time
NextFlags ==
  \/ \E r \in Requests, u \in Users : Quiet /\ startSession(r, u)
  \/ \E r \in Requests : createSession(r)
  \/ \E r \in Requests, s \in SessionIds, u \in Users, i \in FlagInputs :
       Quiet /\ recordKeyPress(r, s, u, i)
  \/ \E r \in Requests : repoRecordKeyPress(r)
  \/ \E r \in Requests, s \in SessionIds, u \in Users : Quiet /\ endSession(r, s, u)
  \/ \E r \in Requests : endSessionResults(r)
  \/ \E r \in Requests : repoEndSession(r)
  \/ \E r \in Requests : getUserStatistics(r)
  \/ \E r \in Requests : updateUserStatistics(r)

SpecFlags == Init /\ [][NextFlags]_vars

\* the stored target sequence of session i
PastSequences ==
  [i \in 1..(MaxHistory + 1) |-> StoredSequence(SeedOf(i))]

\* session i of a store of past sessions: started at time i, abandoned by
\* cleanup.ts after i % 3 keystrokes, every other one sent as correct
PastSession(i, userId) ==
  [userId |-> userId, status |-> "abandoned", startedAt |-> i, endedAt |-> Null,
   duration |-> DefaultDuration,
   keySequence |-> PastSequences[i]]

PastResults(i) ==
  [j \in 1..(i % 3) |->
     [sessionId |-> i, targetKey |-> <<"A">>,
      pressedKey |-> IF (i + j) % 2 = 0 THEN <<"A">> ELSE <<"B">>,
      isCorrect |-> ((i + j) % 2 = 0), responseTime |-> 2]]

RECURSIVE PastResultsUpTo(_)
PastResultsUpTo(n) == IF n = 0 THEN <<>> ELSE PastResultsUpTo(n - 1) \o PastResults(n)

\* a store of up to MaxHistory past sessions, each of either user
InitHistory ==
  /\ \E n \in 0..MaxHistory : \E owner \in [1..n -> Users] :
       /\ sessions = [i \in 1..n |-> PastSession(i, owner[i])]
       /\ typingResults = PastResultsUpTo(n)
       /\ clock = n + 1
       /\ rng = SeedOf(n + 1)
  /\ stats = [u \in Users |-> ZeroStatistics]
  /\ pc = [r \in Requests |-> "idle"]
  /\ call = [r \in Requests |-> NoCall]
  /\ local = [r \in Requests |-> NoLocal]
  /\ last = NoReturn
  /\ folded = [s \in 1..MaxHistory |-> [times |-> 0, keyPresses |-> 0]]
  /\ users = SeedUsers

NextHistory ==
  \E r \in Requests, u \in Users, query \in Queries : getSessionHistory(r, u, query)

SpecHistory == InitHistory /\ [][NextHistory]_vars

\* an empty database; users register (overlapping), and the registered
\* users read their statistics and play sessions, one session request at a time
InitAccounts ==
  /\ sessions = <<>>
  /\ typingResults = <<>>
  /\ stats = [u \in {} |-> ZeroStatistics]
  /\ clock = 1
  /\ pc = [r \in Requests |-> "idle"]
  /\ call = [r \in Requests |-> NoCall]
  /\ local = [r \in Requests |-> NoLocal]
  /\ last = NoReturn
  /\ folded = [s \in SessionIds |-> [times |-> 0, keyPresses |-> 0]]
  /\ users = {}
  /\ rng = 0

NextAccounts ==
  \/ \E r \in Requests, input \in RegisterInputs : register(r, input)
  \/ \E r \in Requests : findUserByEmail(r)
  \/ \E r \in Requests : findUserByUsername(r)
  \/ \E r \in Requests : createUser(r)
  \/ seed
  \/ \E r \in Requests, u \in UserIds : getStatistics(r, u)
  \/ \E r \in Requests, u \in UserIds : Quiet /\ startSession(r, u)
  \/ \E r \in Requests : createSession(r)
  \/ \E r \in Requests, s \in SessionIds, u \in UserIds, i \in HitInputs :
       Quiet /\ recordKeyPress(r, s, u, i)
  \/ \E r \in Requests : repoRecordKeyPress(r)
  \/ \E r \in Requests, s \in SessionIds, u \in UserIds : Quiet /\ endSession(r, s, u)
  \/ \E r \in Requests : endSessionResults(r)
  \/ \E r \in Requests : repoEndSession(r)
  \/ \E r \in Requests : getUserStatistics(r)
  \/ \E r \in Requests : updateUserStatistics(r)

SpecAccounts == InitAccounts /\ [][NextAccounts]_vars

\* any of the stores the two users can have made; users log in and register,
\* and the calls overlap
InitLogin ==
  /\ sessions = <<>>
  /\ typingResults = <<>>
  /\ users \in SUBSET SeedUsers
  /\ stats = [u \in {row.id : row \in users} |-> ZeroStatistics]
  /\ clock = 1
  /\ pc = [r \in Requests |-> "idle"]
  /\ call = [r \in Requests |-> NoCall]
  /\ local = [r \in Requests |-> NoLocal]
  /\ last = NoReturn
  /\ folded = [s \in SessionIds |-> [times |-> 0, keyPresses |-> 0]]
  /\ rng = 0

NextLogin ==
  \/ \E r \in Requests, input \in LoginInputs : login(r, input)
  \/ \E r \in Requests : loginFindUserByEmail(r)
  \/ \E r \in Requests : loginComparePassword(r)
  \/ \E r \in Requests, input \in RegisterInputs : register(r, input)
  \/ \E r \in Requests : findUserByEmail(r)
  \/ \E r \in Requests : findUserByUsername(r)
  \/ \E r \in Requests : createUser(r)

SpecLogin == InitLogin /\ [][NextLogin]_vars

\* ------------------------------------------------------ JS numbers
\* The averages and bests are JS numbers and DOUBLE PRECISION columns: IEEE 754
\* binary64, every operation rounded to the nearest value of 53 significant
\* bits, ties to even.  A double is m * 2^e with m a natural number of
\* Precision bits, held as digits of LimbBits bits, most significant first
\* (zero is the empty list).
MaxTyped == 9
Precision == 53
LimbBits == 15
Limb == 2 ^ LimbBits
ZeroLimbs(k) == [i \in 1..k |-> 0]
NatOf(n) == IF n = 0 THEN <<>> ELSE IF n < Limb THEN <<n>> ELSE <<n \div Limb, n % Limb>>
ButLast(a) == SubSeq(a, 1, Len(a) - 1)
Strip(a) ==
  IF \A i \in DOMAIN a : a[i] = 0 THEN <<>>
  ELSE LET k == CHOOSE i \in DOMAIN a : a[i] # 0 /\ \A j \in 1..(i - 1) : a[j] = 0
       IN SubSeq(a, k, Len(a))
RECURSIVE MulCarry(_, _, _)
MulCarry(a, s, carry) ==
  IF a = <<>> THEN NatOf(carry)
  ELSE LET v == a[Len(a)] * s + carry
       IN Append(MulCarry(ButLast(a), s, v \div Limb), v % Limb)
RECURSIVE AddCarry(_, _, _)
AddCarry(a, b, carry) ==
  IF a = <<>> /\ b = <<>> THEN NatOf(carry)
  ELSE LET x == IF a = <<>> THEN 0 ELSE a[Len(a)]
           y == IF b = <<>> THEN 0 ELSE b[Len(b)]
           v == x + y + carry
       IN Append(AddCarry(IF a = <<>> THEN a ELSE ButLast(a),
                          IF b = <<>> THEN b ELSE ButLast(b), v \div Limb), v % Limb)
RECURSIVE LongDiv(_, _)
LongDiv(a, d) ==
  IF a = <<>> THEN [q |-> <<>>, r |-> 0]
  ELSE LET p == LongDiv(ButLast(a), d)
           v == p.r * Limb + a[Len(a)]
       IN [q |-> Append(p.q, v \div d), r |-> v % d]
BitLength(a) ==
  IF a = <<>> THEN 0
  ELSE (Len(a) - 1) * LimbBits
       + CHOOSE k \in 1..LimbBits : 2 ^ (k - 1) <= a[1] /\ a[1] < 2 ^ k
ShiftLeft(a, k) == MulCarry(a, 2 ^ (k % LimbBits), 0) \o ZeroLimbs(k \div LimbBits)
\* floor(a / 2^k), and whether a bit was shifted out
ShiftRight(a, k) ==
  LET whole == k \div LimbBits
      kept == SubSeq(a, 1, Len(a) - whole)
      p == LongDiv(kept, 2 ^ (k % LimbBits))
  IN [q |-> Strip(p.q),
      lost |-> p.r # 0 \/ \E i \in (Len(a) - whole + 1)..Len(a) : a[i] # 0]
IsOdd(a) == a # <<>> /\ a[Len(a)] % 2 = 1
DZero == [m |-> <<>>, e |-> 0]
Round(a, sticky, e) ==
  LET n == BitLength(a)
  IN IF n <= Precision
     THEN [m |-> ShiftLeft(a, Precision - n), e |-> e - (Precision - n)]
     ELSE LET s1 == ShiftRight(a, n - Precision - 1)
              keep == ShiftRight(s1.q, 1).q
              up == IsOdd(s1.q) /\ (sticky \/ s1.lost \/ IsOdd(keep))
              inc == IF up THEN AddCarry(keep, <<>>, 1) ELSE keep
          IN IF BitLength(inc) > Precision
             THEN [m |-> ShiftRight(inc, 1).q, e |-> e + (n - Precision) + 1]
             ELSE [m |-> inc, e |-> e + (n - Precision)]
DInt(n) == IF n = 0 THEN DZero ELSE Round(NatOf(n), FALSE, 0)
DTimes(x, s) == IF x = DZero \/ s = 0 THEN DZero ELSE Round(MulCarry(x.m, s, 0), FALSE, x.e)
DOver(x, d) ==
  IF x = DZero THEN DZero
  ELSE LET p == LongDiv(x.m \o ZeroLimbs(2), d)
       IN Round(Strip(p.q), p.r # 0, x.e - 2 * LimbBits)
DPlus(x, y) ==
  IF x = DZero THEN y ELSE IF y = DZero THEN x
  ELSE LET e0 == IF x.e < y.e THEN x.e ELSE y.e
       IN Round(AddCarry(ShiftLeft(x.m, x.e - e0), ShiftLeft(y.m, y.e - e0), 0), FALSE, e0)
LimbsLeq(a, b) ==
  \/ a = b
  \/ LET i == CHOOSE k \in DOMAIN a : a[k] # b[k] /\ \A j \in 1..(k - 1) : a[j] = b[j]
     IN a[i] < b[i]
DLeq(x, y) ==
  IF x = DZero THEN TRUE ELSE IF y = DZero THEN FALSE
  ELSE x.e < y.e \/ (x.e = y.e /\ LimbsLeq(x.m, y.m))
DMax(x, y) == IF DLeq(x, y) THEN y ELSE x
DMin(x, y) == IF DLeq(x, y) THEN x ELSE y
\* the whole number a double stands for (a small one: a count of minutes)
IntegerOf(x) == ShiftRight(x.m, 0 - x.e).q[1]

ZeroStatisticsDouble ==
  [totalSessions |-> 0, totalKeyPresses |-> 0, correctKeyPresses |-> 0,
   averageKPM |-> DZero, bestKPM |-> DZero,
   averageAccuracy |-> DZero, bestAccuracy |-> DZero,
   averageResponseTime |-> DZero, bestResponseTime |-> DZero,
   lastSessionAt |-> Null]

\* sessionService.endSession: the summary, in JS numbers
SessionDataDouble(results, duration) ==
  LET totalKeyPresses == Len(results)
      correctKeyPresses == Len(SelectSeq(results, LAMBDA r : r.isCorrect))
      accuracy == DTimes(DOver(DInt(correctKeyPresses), totalKeyPresses), 100)
      totalResponseTime == SumResponseTime(results)
      averageResponseTime == DOver(DInt(totalResponseTime), totalKeyPresses)
      sessionDurationMinutes == DOver(DInt(duration), 60)
      kpm == DOver(DInt(correctKeyPresses), IntegerOf(sessionDurationMinutes))
  IN [totalKeyPresses |-> totalKeyPresses, correctKeyPresses |-> correctKeyPresses,
      averageResponseTime |-> averageResponseTime, kpm |-> kpm, accuracy |-> accuracy]

\* statisticsRepository.updateUserStatistics: the row written, in JS numbers
NewStatisticsDouble(currentStats, sessionData, now) ==
  LET newTotalSessions == currentStats.totalSessions + 1
      mean(avg, x) ==
        DOver(DPlus(DTimes(avg, currentStats.totalSessions), x), newTotalSessions)
  IN [totalSessions |-> newTotalSessions,
      totalKeyPresses |-> currentStats.totalKeyPresses + sessionData.totalKeyPresses,
      correctKeyPresses |-> currentStats.correctKeyPresses + sessionData.correctKeyPresses,
      averageKPM |-> mean(currentStats.averageKPM, sessionData.kpm),
      bestKPM |-> DMax(currentStats.bestKPM, sessionData.kpm),
      averageAccuracy |-> mean(currentStats.averageAccuracy, sessionData.accuracy),
      bestAccuracy |-> DMax(currentStats.bestAccuracy, sessionData.accuracy),
      averageResponseTime |-> mean(currentStats.averageResponseTime, sessionData.averageResponseTime),
      bestResponseTime |->
        IF currentStats.bestResponseTime = DZero
        THEN sessionData.averageResponseTime
        ELSE DMin(currentStats.bestResponseTime, sessionData.averageResponseTime),
      lastSessionAt |-> now]

\* `typed` key presses of which the first `hits` hit their target
TypedKeys(typed, hits) ==
  [i \in 1..typed |->
     IF i <= hits
     THEN [targetKey |-> <<"A">>, pressedKey |-> <<"A">>, isCorrect |-> TRUE, responseTime |-> 2]
     ELSE [targetKey |-> <<"A">>, pressedKey |-> <<"B">>, isCorrect |-> FALSE, responseTime |-> 4]]

InitDoubles ==
  /\ sessions = <<>>
  /\ typingResults = <<>>
  /\ stats = [u \in Users |-> ZeroStatisticsDouble]
  /\ clock = 1
  /\ pc = [r \in Requests |-> "idle"]
  /\ call = [r \in Requests |-> NoCall]
  /\ local = [r \in Requests |-> NoLocal]
  /\ last = NoReturn
  /\ folded = [s \in 1..MaxFolds |-> [times |-> 0, keyPresses |-> 0]]
  /\ users = SeedUsers
  /\ rng = 0

\* startSession, recordKeyPress for each key, endSession, run to completion,
\* with the statistics computed in JS numbers
playSessionDouble(userId, keys) ==
  /\ Quiet
  /\ Len(sessions) < MaxFolds
  /\ getActiveSession(userId) = Null
  /\ LET id == Len(sessions) + 1
         rows == [i \in DOMAIN keys |->
                    [sessionId |-> id,
                     targetKey |-> keys[i].targetKey,
                     pressedKey |-> keys[i].pressedKey,
                     isCorrect |-> keys[i].isCorrect,
                     responseTime |-> keys[i].responseTime]]
         results == SelectSeq(typingResults \o rows, LAMBDA row : row.sessionId = id)
         sessionData == SessionDataDouble(results, DefaultDuration)
     IN /\ sessions' = Append(sessions,
             [userId |-> userId, status |-> "completed",
              startedAt |-> clock, endedAt |-> clock, duration |-> DefaultDuration,
              keySequence |-> StoredSequence(rng)])
        /\ rng' = Advance(rng, SequenceLength)
        /\ typingResults' = typingResults \o rows
        /\ clock' = clock + 1
        /\ stats' = [stats EXCEPT ![userId] =
                       NewStatisticsDouble(stats[userId], sessionData, clock + 1)]
        /\ folded' = [folded EXCEPT ![id] =
                        [times |-> 1, keyPresses |-> sessionData.totalKeyPresses]]
        /\ last' = [call |-> EndCall(id, userId), resp |-> Ok]
  /\ UNCHANGED <<pc, call, local, users>>

\* testuser plays whole sessions one after the other
NextDoubles ==
  \E typed \in 1..MaxTyped, hits \in 0..MaxTyped :
    hits <= typed /\ playSessionDouble("testuser", TypedKeys(typed, hits))

SpecDoubles == InitDoubles /\ [][NextDoubles]_vars

\* ------------------------------------------------------------ properties
SessionsOf(u) == {s \in SessionRows : sessions[s].userId = u}
ActiveOf(u) == {s \in SessionsOf(u) : sessions[s].status = "in_progress"}
CompletedOf(u) == {s \in SessionsOf(u) : sessions[s].status = "completed"}
ResultCount(table, s) == Len(SelectSeq(table, LAMBDA row : row.sessionId = s))

RECURSIVE SumOver(_, _)
SumOver(S, f) ==
  IF S = {} THEN 0
  ELSE LET x == CHOOSE y \in S : TRUE IN f[x] + SumOver(S \ {x}, f)

\* an endSession request for session s is past its status check
Closing(s) ==
  \E r \in Requests :
    /\ call[r].op = "endSession"
    /\ call[r].sessionId = s
    /\ InFlight(r)

\* the step is the return of a request
Returns == last' # NoReturn
\* the step is a whole request: it starts and returns without awaiting
ReturnsAtOnce == last' # NoReturn /\ pc' = pc
StoreUnchanged == UNCHANGED <<sessions, typingResults, stats, folded>>

\* the summary of a session's stored keystrokes
SummaryOf(s) == SessionData(getSessionResults(s), sessions[s].duration)

RECURSIVE RSumOver(_, _)
RSumOver(S, f) ==
  IF S = {} THEN RZero
  ELSE LET x == CHOOSE y \in S : TRUE IN RAdd(f[x], RSumOver(S \ {x}, f))

\* arithmetic mean of f over the non-empty set S
RMeanOver(S, f) == RDiv(RSumOver(S, f), RInt(Cardinality(S)))
\* the step is the first step of a request making the call c
Begins(c) ==
  \/ ReturnsAtOnce /\ last'.call = c
  \/ \E r \in Requests : Idle(r) /\ pc'[r] # "idle" /\ call'[r] = c

\* C1: when requests do not overlap, every user has at most one session
\* with status in_progress, in every state.
C1_OneActiveSessionSerial ==
  \A u \in Users : Cardinality(ActiveOf(u)) <= 1

\* a start was refused because the user's session is still in progress
C1_Witness ==
  /\ last.call.op = "startSession"
  /\ last.resp = ActiveSessionExists
  /\ Cardinality(ActiveOf(last.call.userId)) = 1

\* C2: also when startSession calls of one user overlap, no state holds
\* two in_progress sessions of that user.
C2_OneActiveSessionOverlap ==
  \A s1, s2 \in SessionRows :
    (/\ sessions[s1].userId = sessions[s2].userId
     /\ sessions[s1].status = "in_progress"
     /\ sessions[s2].status = "in_progress") => s1 = s2

C4_FoldedAtMostOnce ==
  \A u \in Users :
    /\ stats[u].totalSessions <= Cardinality(CompletedOf(u))
    /\ stats[u].totalKeyPresses <=
         SumOver(CompletedOf(u), [s \in SessionIds |-> ResultCount(typingResults, s)])

\* C5: endSession is all-or-nothing: once no endSession request for a
\* session is running, the session is not completed without having been
\* folded into the owner's statistics.
C5_CompletedImpliesFolded ==
  \A s \in SessionRows :
    (sessions[s].status = "completed" /\ ~Closing(s)) => folded[s].times >= 1

\* C6: a completed session ends up folded exactly once, also when the
\* request that completed it failed and the owner retried: when the retry
\* has returned and no endSession for the session is running, the session
\* has been folded once.
C6_RetryFoldsOnce ==
  (/\ last.call.op = "endSession"
   /\ last.call.sessionId \in SessionRows
   /\ sessions[last.call.sessionId].userId = last.call.userId
   /\ sessions[last.call.sessionId].status = "completed"
   /\ last.resp \in {Ok, SessionNotActive}
   /\ ~Closing(last.call.sessionId))
  => folded[last.call.sessionId].times = 1

\* C7: when endSession calls for two different sessions of a user overlap
\* (the second session was started after the first was marked completed),
\* both folds are preserved: once every call has returned, totalSessions
\* has grown by two and totalKeyPresses by what the two calls folded.
C7_BothFoldsPreserved ==
  \A s1, s2 \in SessionRows :
    (/\ Quiet
     /\ SessionsOf(sessions[s1].userId) = {s1, s2}
     /\ sessions[s1].status = "completed"
     /\ sessions[s2].status = "completed"
     /\ sessions[s1].endedAt < sessions[s2].startedAt
     /\ folded[s1].times = 1
     /\ folded[s2].times = 1)
    => /\ stats[sessions[s1].userId].totalSessions = 2
       /\ stats[sessions[s1].userId].totalKeyPresses
            = folded[s1].keyPresses + folded[s2].keyPresses

\* C8: once endSession has succeeded for a session, every recordKeyPress
\* call the owner issues against it afterwards fails with 'Session is not
\* active', and the number of its keystroke rows never changes again.
C8_FrozenAfterEnd ==
  [][\A s \in SessionRows : folded[s].times >= 1 =>
       /\ (/\ ReturnsAtOnce
           /\ last'.call.op = "recordKeyPress"
           /\ last'.call.sessionId = s
           /\ last'.call.userId = sessions[s].userId) => last'.resp = SessionNotActive
       /\ ResultCount(typingResults', s) = ResultCount(typingResults, s)]_vars

\* C9: endSession by the owner on an in_progress session without
\* keystrokes fails with 'No key presses recorded' and changes nothing:
\* the session is not completed, endedAt stays unset, no row is written.
C9_ZeroKeystrokeClose ==
  [][\A r \in Requests :
       (/\ pc[r] = "getSessionResults"
        /\ pc'[r] # "getSessionResults"
        /\ ResultCount(typingResults, call[r].sessionId) = 0)
       => /\ last' = [call |-> call[r], resp |-> NoKeyPresses]
          /\ StoreUnchanged
          /\ sessions'[call[r].sessionId].status # "completed"
          /\ sessions'[call[r].sessionId].endedAt = Null]_vars

\* the owner's close of a session without keystrokes was refused
C9_Witness ==
  /\ last.call.op = "endSession"
  /\ last.resp = NoKeyPresses
  /\ sessions[last.call.sessionId].userId = last.call.userId
  /\ sessions[last.call.sessionId].status = "in_progress"
  /\ ResultCount(typingResults, last.call.sessionId) = 0

\* C10: for an existing session and a caller who is not its owner,
\* recordKeyPress (any payload), endSession and getSession fail with 403
\* 'You do not have permission' and change no row.
C10_OwnershipIsolation ==
  [][(/\ Returns
      /\ last'.call.op \in {"recordKeyPress", "endSession", "getSession"}
      /\ last'.call.sessionId \in SessionRows
      /\ sessions[last'.call.sessionId].userId # last'.call.userId)
     => (last'.resp = NoPermission /\ StoreUnchanged)]_vars

\* C11: endSession by the owner on a session that is completed or abandoned
\* fails with 'Session is not active' and changes nothing: status, endedAt
\* and the owner's statistics stay as they are, no fold is applied again.
C11_ClosedSessionEndRefused ==
  [][\A s \in SessionRows :
       (/\ sessions[s].status \in {"completed", "abandoned"}
        /\ Begins(EndCall(s, sessions[s].userId)))
       => /\ last' = [call |-> EndCall(s, sessions[s].userId), resp |-> SessionNotActive]
          /\ StoreUnchanged]_vars

\* the owner's second close of a folded session was refused
C11_Witness ==
  /\ last.call.op = "endSession"
  /\ last.resp = SessionNotActive
  /\ sessions[last.call.sessionId].userId = last.call.userId
  /\ sessions[last.call.sessionId].status = "completed"
  /\ folded[last.call.sessionId].times = 1
  /\ stats[last.call.userId].totalSessions = 1

\* C12: startSession for a user who has an in_progress session fails with
\* 'You already have an active session', creates no session and leaves
\* every session, keystroke and statistics row unchanged, at every attempt
\* made while that session is in_progress.
C12_StartRefusedWhileActive ==
  [][\A u \in Users :
       (ActiveOf(u) # {} /\ Begins(StartCall(u)))
       => /\ last' = [call |-> StartCall(u), resp |-> ActiveSessionExists]
          /\ StoreUnchanged]_vars

\* a start was refused while the user's session, with a keystroke, is open
C12_Witness ==
  /\ last = [call |-> StartCall(last.call.userId), resp |-> ActiveSessionExists]
  /\ \E s \in ActiveOf(last.call.userId) : ResultCount(typingResults, s) >= 1

C14_AveragesAreMeans ==
  \A u \in Users :
    LET done == CompletedOf(u)
    IN done # {} =>
         /\ stats[u].totalSessions = Cardinality(done)
         /\ REq(stats[u].averageKPM, RMeanOver(done, [s \in done |-> SummaryOf(s).kpm]))
         /\ REq(stats[u].averageAccuracy, RMeanOver(done, [s \in done |-> SummaryOf(s).accuracy]))
         /\ REq(stats[u].averageResponseTime,
                RMeanOver(done, [s \in done |-> SummaryOf(s).averageResponseTime]))

\* three sessions of one user with different numbers of key presses and
\* different accuracies have been folded
C14_Witness ==
  \E u \in Users :
    /\ Cardinality(CompletedOf(u)) = 3
    /\ \E s1, s2 \in CompletedOf(u) :
         /\ SummaryOf(s1).totalKeyPresses # SummaryOf(s2).totalKeyPresses
         /\ SummaryOf(s1).accuracy # SummaryOf(s2).accuracy
    /\ stats[u].averageAccuracy \notin {RZero, RInt(100)}

\* C15: across successful endSession calls of a user, overlapping or not,
\* the stored bestKPM and bestAccuracy never decrease from one state to the
\* next, and bestResponseTime never increases once it is non-zero.
C15_BestMonotone ==
  [][\A u \in Users :
       /\ RLeq(stats[u].bestKPM, stats'[u].bestKPM)
       /\ RLeq(stats[u].bestAccuracy, stats'[u].bestAccuracy)
       /\ stats[u].bestResponseTime # RZero
            => RLeq(stats'[u].bestResponseTime, stats[u].bestResponseTime)]_vars

\* C16: after k >= 1 sessions of a user were closed one after the other,
\* bestResponseTime is the minimum of the k sessions' average response
\* times (the first session's average when k = 1) and it is not 0.
C16_BestResponseTimeIsMin ==
  \A u \in Users :
    LET done == CompletedOf(u)
        best == stats[u].bestResponseTime
    IN done # {} =>
         /\ best # RZero
         /\ \E s \in done : REq(best, SummaryOf(s).averageResponseTime)
         /\ \A s \in done : RLeq(best, SummaryOf(s).averageResponseTime)

\* of three sessions of a user the second has the least average response
\* time, and it is the stored best
C16_Witness ==
  \E u \in Users : \E s1, s2, s3 \in CompletedOf(u) :
    /\ s1 < s2 /\ s2 < s3
    /\ ~RLeq(SummaryOf(s1).averageResponseTime, SummaryOf(s2).averageResponseTime)
    /\ ~RLeq(SummaryOf(s3).averageResponseTime, SummaryOf(s2).averageResponseTime)
    /\ stats[u].bestResponseTime = SummaryOf(s2).averageResponseTime

Failures ==
  {ActiveSessionExists, SessionNotActive, ZodValidation, NoKeyPresses,
   SessionNotFound, NoPermission}
ErrorKind(resp) ==
  CASE resp = ActiveSessionExists -> "ConflictError"
    [] resp = SessionNotActive -> "InvalidStateError"
    [] resp \in {ZodValidation, NoKeyPresses} -> "ValidationError"
    [] resp = SessionNotFound -> "NotFoundError"
    [] resp = NoPermission -> "ForbiddenError"
    [] OTHER -> "none"

\* C18: the failures of startSession, recordKeyPress and endSession carry
\* a code that identifies their kind: two failures of different kinds
\* (conflict, invalid state, validation, not found, forbidden) never carry
\* the same code.
C18_CodesIdentifyKind ==
  [][(/\ last.resp \in Failures
      /\ last'.resp \in Failures
      /\ ErrorKind(last.resp) # ErrorKind(last'.resp))
     => last.resp.code # last'.resp.code]_vars

\* the payload breaks one of the rules the claim names
BadPayload(input) ==
  \/ input.responseTime <= 0
  \/ Len(input.targetKey) # 1
  \/ (input.pressedKey # NoKey /\ Len(input.pressedKey) # 1)

\* C19: recordKeyPress with a responseTime that is not a positive integer,
\* or a targetKey or (present) pressedKey that is not one character, fails
\* with 'Validation error' and appends no row; so every stored keystroke
\* has responseTime > 0 and a one-character targetKey.
C19_InvalidKeystrokeRejected ==
  /\ [](\A i \in DOMAIN typingResults :
          /\ typingResults[i].responseTime > 0
          /\ Len(typingResults[i].targetKey) = 1)
  /\ [][/\ (/\ ReturnsAtOnce
             /\ last'.call.op = "recordKeyPress"
             /\ BadPayload(last'.call.input))
            => (last'.resp = ZodValidation /\ StoreUnchanged)
         /\ \A r \in Requests :
              (Idle(r) /\ pc'[r] = "recordKeyPress") => ~BadPayload(call'[r].input)]_vars

\* the owner's keystroke with a two-character targetKey was refused while
\* the session is open and already holds a keystroke
C19_Witness ==
  /\ last.call.op = "recordKeyPress"
  /\ last.resp = ZodValidation
  /\ Len(last.call.input.targetKey) = 2
  /\ last.call.sessionId \in ActiveOf(last.call.userId)
  /\ ResultCount(typingResults, last.call.sessionId) = 1

\* C20: a successful recordKeyPress appends exactly one keystroke row, for
\* the named session and with the payload's values, and changes nothing
\* else: no session row (status, endedAt, owner), no other keystroke row
\* and no statistics row.
C20_RecordKeystrokeFrame ==
  [][(/\ Returns
      /\ last'.call.op = "recordKeyPress"
      /\ last'.resp = Created)
     => /\ Len(typingResults') = Len(typingResults) + 1
        /\ SubSeq(typingResults', 1, Len(typingResults)) = typingResults
        /\ typingResults'[Len(typingResults')] =
             [sessionId |-> last'.call.sessionId,
              targetKey |-> last'.call.input.targetKey,
              pressedKey |-> last'.call.input.pressedKey,
              isCorrect |-> last'.call.input.isCorrect,
              responseTime |-> last'.call.input.responseTime]
        /\ UNCHANGED <<sessions, stats, folded>>]_vars

\* a keystroke was recorded for one session while another session holds a
\* keystroke of its own
C20_Witness ==
  /\ last.call.op = "recordKeyPress"
  /\ last.resp = Created
  /\ Len(typingResults) = 2
  /\ typingResults[2].sessionId = last.call.sessionId
  /\ typingResults[1].sessionId # last.call.sessionId

\* C21: cleanup.ts may run while endSession calls are in flight: it never
\* demotes a session that an in-flight endSession has checked as
\* in_progress and is closing, no session goes from abandoned to completed
\* and no abandoned session is folded into the statistics.
C21_CleanupSparesClosing ==
  [][\A s \in SessionRows :
       /\ (/\ sessions[s].status = "in_progress"
           /\ \E r \in Requests : pc[r] = "endSession" /\ call[r].sessionId = s)
            => sessions'[s].status # "abandoned"
       /\ sessions[s].status = "abandoned"
            => (sessions'[s].status = "abandoned" /\ folded'[s] = folded[s])]_vars

\* C22: when requests do not overlap, endedAt of a session is null exactly
\* while its status is not completed; it is set by the endSession that
\* completes the session and never modified afterwards; completed and
\* abandoned are terminal.
C22_EndedAtSetOnce ==
  /\ [](\A s \in SessionRows :
          (sessions[s].endedAt = Null) <=> (sessions[s].status # "completed"))
  /\ [][\A s \in SessionRows :
          /\ sessions[s].endedAt # Null => sessions'[s].endedAt = sessions[s].endedAt
          /\ sessions[s].status \in {"completed", "abandoned"}
               => sessions'[s].status = sessions[s].status
          /\ sessions'[s].endedAt # sessions[s].endedAt
               => \E r \in Requests :
                    /\ pc[r] = "endSession"
                    /\ pc'[r] = "getUserStatistics"
                    /\ call[r] = EndCall(s, sessions[s].userId)]_vars

\* cleanup has run over a completed session and an open one: the first
\* keeps its endedAt, the second is abandoned without one
C22_Witness ==
  \E s1, s2 \in SessionRows :
    /\ sessions[s1].status = "completed" /\ sessions[s1].endedAt # Null
    /\ sessions[s2].status = "abandoned" /\ sessions[s2].endedAt = Null
    /\ s1 < s2
    /\ Quiet

\* C23: every user has exactly one statistics row from the step that creates
\* the user on (the row is created with the user, all zero), so GET /statistics
\* of a registered user never answers "Statistics not found" and endSession
\* never finds the row absent
C23_UserHasStatistics ==
  /\ [](/\ DOMAIN stats = UserIds
        /\ last.resp # StatisticsMissing
        /\ (last.call.op = "getStatistics" /\ last.call.userId \in UserIds)
             => last.resp = Ok)
  /\ [][\A u \in users' \ users :
          u.id \notin DOMAIN stats /\ stats'[u.id] = ZeroStatistics]_vars

\* both users are registered, one has a session folded into the row, and
\* GET /statistics has just answered
C23_Witness ==
  /\ Cardinality(users) = 2
  /\ \E u \in UserIds : stats[u].totalSessions = 1
  /\ last.call.op = "getStatistics"
  /\ last.resp = Ok

\* C24: the target sequence of every session has exactly 200 entries, each
\* one of the letters A-Z, and no step changes the sequence or the owner of
\* a session
C24_KeySequenceFixed ==
  /\ [](\A s \in SessionRows :
          LET keySequence == JSONparse(sessions[s].keySequence)
          IN /\ Len(keySequence) = 200
             /\ \A i \in 1..Len(keySequence) :
                  keySequence[i] \in {Keys[k] : k \in 1..26})
  /\ [][\A s \in SessionRows :
          /\ sessions'[s].keySequence = sessions[s].keySequence
          /\ sessions'[s].userId = sessions[s].userId]_vars

\* two sessions with different sequences, the first played and completed,
\* the second abandoned by cleanup
C24_Witness ==
  /\ Len(sessions) = 2
  /\ sessions[1].keySequence # sessions[2].keySequence
  /\ sessions[1].status = "completed"
  /\ sessions[2].status = "abandoned"
  /\ typingResults # <<>>
  /\ last.call.op = "getSession"
  /\ last.resp.code = 200

\* the number of rows of session s whose stored flag is true
SentCorrect(s) ==
  Len(SelectSeq(typingResults, LAMBDA row : row.sessionId = s /\ row.isCorrect))

\* C25: the isCorrect flag stored for a keystroke is the value the caller
\* sent, whatever targetKey and pressedKey are, no later step changes it, and
\* endSession counts exactly the rows whose stored flag is true
C25_IsCorrectAsSent ==
  [][/\ \A i \in DOMAIN typingResults : typingResults'[i] = typingResults[i]
     /\ Len(typingResults') > Len(typingResults) =>
          /\ Len(typingResults') = Len(typingResults) + 1
          /\ last'.call.op = "recordKeyPress"
          /\ last'.resp = Created
          /\ LET row == typingResults'[Len(typingResults')]
             IN /\ row.isCorrect = last'.call.input.isCorrect
                /\ row.targetKey = last'.call.input.targetKey
                /\ row.pressedKey = last'.call.input.pressedKey
     /\ (last'.call.op = "endSession" /\ last'.resp = Ok) =>
          LET s == last'.call.sessionId
              u == last'.call.userId
          IN /\ stats'[u].correctKeyPresses = stats[u].correctKeyPresses + SentCorrect(s)
             /\ stats'[u].totalKeyPresses = stats[u].totalKeyPresses + ResultCount(typingResults, s)]_vars

\* a session closed with two keystrokes sent as correct, one with another key
\* pressed and one with no key pressed: both are counted
C25_Witness ==
  /\ last.call.op = "endSession"
  /\ last.resp = Ok
  /\ LET s == last.call.sessionId
     IN /\ \E i \in DOMAIN typingResults :
             /\ typingResults[i].sessionId = s
             /\ typingResults[i].isCorrect
             /\ typingResults[i].pressedKey = <<"B">>
             /\ typingResults[i].targetKey = <<"A">>
        /\ \E i \in DOMAIN typingResults :
             /\ typingResults[i].sessionId = s
             /\ typingResults[i].isCorrect
             /\ typingResults[i].pressedKey = NoKey
        /\ stats[last.call.userId].correctKeyPresses = 2
        /\ stats[last.call.userId].totalKeyPresses = 2

\* C26: the sessions GET /api/sessions returns are the caller's, newest first, at
\* most `limit` of them (10 when no limit is given), each with
\* totalKeyPresses and correctKeyPresses equal to the counts of its stored rows
C26_HistoryOfCaller ==
  (last.call.op = "getHistory" /\ last.resp.code = 200) =>
    LET body == last.resp.body
        limit == LimitOf(last.call.input).int
    IN /\ \A i \in DOMAIN body :
            /\ body[i].id \in SessionRows
            /\ sessions[body[i].id].userId = last.call.userId
            /\ body[i].totalKeyPresses = ResultCount(typingResults, body[i].id)
            /\ body[i].correctKeyPresses = SentCorrect(body[i].id)
       /\ \A i, j \in DOMAIN body : i < j => body[i].startedAt >= body[j].startedAt
       /\ Len(body) <= limit

\* C27: recordKeyPress checks in the order session exists, caller owns it,
\* session is in_progress, payload is valid: with an invalid payload it
\* fails with 'Session not found' when the session does not exist and with
\* 'Session is not active' when the caller owns a session that is not
\* in_progress, never with 'Validation error' in those cases
C27_ChecksBeforePayload ==
  [][(/\ ReturnsAtOnce
      /\ last'.call.op = "recordKeyPress"
      /\ BadPayload(last'.call.input))
     => /\ last'.call.sessionId \notin SessionRows => last'.resp = SessionNotFound
        /\ (/\ last'.call.sessionId \in SessionRows
            /\ sessions[last'.call.sessionId].userId = last'.call.userId
            /\ sessions[last'.call.sessionId].status # "in_progress")
             => last'.resp = SessionNotActive]_vars

\* C28: with recordKeyPress overlapping endSession or cleanup on the same
\* session, a keystroke row is inserted only while the session's status is
\* in_progress: no row is appended to a completed or abandoned session
C28_InsertOnlyWhileActive ==
  [][Len(typingResults') > Len(typingResults) =>
       sessions[typingResults'[Len(typingResults')].sessionId].status = "in_progress"]_vars

\* C29: in every state with no request in flight, each user's
\* totalKeyPresses equals the number of keystroke rows stored for that
\* user's completed sessions (the counts GET /api/sessions reports for them)
C29_TotalsMatchRows ==
  Quiet => \A u \in Users :
    stats[u].totalKeyPresses =
      SumOver(CompletedOf(u), [s \in SessionRows |-> ResultCount(typingResults, s)])

\* C30: getSession returns the keystroke results of a session in the order
\* in which they were recorded, the order of endSession's result load
\* (ascending keyPressedAt), whatever the number of keystrokes
C30_ResultsInRecordingOrder ==
  (last.call.op = "getSession" /\ last.resp.code = 200) =>
    last.resp.body.results = getSessionResults(last.call.sessionId)

\* a run of cleanup.ts: the only step that neither moves a request nor returns
CleanupStep == pc' = pc /\ last' = NoReturn

\* C31: one run of cleanup.ts sets every in_progress session, of every user,
\* to abandoned with endedAt left null, and leaves completed and abandoned
\* sessions, all keystroke rows and all statistics rows unchanged; no
\* in_progress session is left, so a second run changes nothing
C31_CleanupFrame ==
  [][CleanupStep =>
       /\ DOMAIN sessions' = DOMAIN sessions
       /\ \A s \in SessionRows :
            /\ sessions[s].status = "in_progress" =>
                 /\ sessions'[s] = [sessions[s] EXCEPT !.status = "abandoned"]
                 /\ sessions'[s].endedAt = Null
            /\ sessions[s].status # "in_progress" => sessions'[s] = sessions[s]
            /\ sessions'[s].status # "in_progress"
       /\ UNCHANGED <<typingResults, stats, folded, users>>]_vars

\* cleanup has run over the open sessions of both users, one of them with a
\* keystroke: both are abandoned, without endedAt
C31_Witness ==
  /\ Len(sessions) = 2
  /\ sessions[1].userId # sessions[2].userId
  /\ \A s \in SessionRows : sessions[s].status = "abandoned" /\ sessions[s].endedAt = Null
  /\ sessions[1].startedAt = sessions[2].startedAt
  /\ typingResults # <<>>
  /\ last = NoReturn
  /\ Quiet

\* C32: no user is permanently blocked from starting a session. The part
\* stated here: directly after a successful endSession, and directly after a
\* run of cleanup.ts, with no other request in flight, startSession for that
\* user succeeds, that is its getActiveSession lookup finds no session
C32_StartAfterEnd ==
  /\ []((Quiet /\ last.call.op = "endSession" /\ last.resp = Ok) =>
         getActiveSession(last.call.userId) = Null)
  /\ [][(CleanupStep /\ Quiet') => \A u \in Users : ActiveOf(u)' = {}]_vars

\* a statistics row of JS numbers within its ranges
RowSound(row) ==
  /\ 0 <= row.correctKeyPresses
  /\ row.correctKeyPresses <= row.totalKeyPresses
  /\ DLeq(DZero, row.averageAccuracy)
  /\ DLeq(row.averageAccuracy, row.bestAccuracy)
  /\ DLeq(row.bestAccuracy, DInt(100))
  /\ DLeq(row.averageKPM, row.bestKPM)
  /\ row.totalSessions = 0 =>
       /\ row.totalKeyPresses = 0 /\ row.correctKeyPresses = 0
       /\ row.averageKPM = DZero /\ row.bestKPM = DZero
       /\ row.averageAccuracy = DZero /\ row.bestAccuracy = DZero
       /\ row.averageResponseTime = DZero /\ row.bestResponseTime = DZero

\* C33: in every state each statistics row satisfies
\* 0 <= correctKeyPresses <= totalKeyPresses,
\* 0 <= averageAccuracy <= bestAccuracy <= 100, averageKPM <= bestKPM, and
\* totalSessions = 0 implies that all counters, averages and bests are 0
C33_StatisticsRowSound == \A u \in Users : RowSound(stats[u])

\* the email or the username of a register body is held by a user
Taken(input) ==
  \E u \in users : u.email = input.email \/ u.username = input.username

\* C34: after any register calls, overlapping ones included, no two users
\* share an email or a username; a register call that returns while its email
\* or username is taken is refused, and a refused register call creates no
\* user and no statistics row
C34_UsersUnique ==
  /\ [](\A a, b \in users :
          (a.email = b.email \/ a.username = b.username) => a = b)
  /\ [][(last'.call.op = "register" /\ Taken(last'.call.input)) =>
          last'.resp # Created]_vars
  /\ [][(last'.call.op = "register" /\ last'.resp # Created) =>
          UNCHANGED <<users, stats>>]_vars

\* a register call passed both existence checks and was then refused by a
\* unique index: an overlapping call had inserted its user in between
C34_Witness ==
  /\ last.call.op = "register"
  /\ last.resp = UniqueConstraintFailed
  /\ \E u \in users : u.email = last.call.input.email
  /\ Cardinality(users) = 1
  /\ DOMAIN stats = UserIds

\* no user of the table with this email has this password
Mismatch(table, input) ==
  \A u \in table : u.email = input.email => ~comparePassword(input.password, u.password)

\* the users tables that differ from `table` only in whether a user with
\* this email exists
Twins(table, email) ==
  IF \E u \in table : u.email = email
  THEN {table \ {UserByEmail(table, email)}}
  ELSE {table \cup {UserRow(input)} :
          input \in {i \in RegisterInputs :
                       i.email = email /\ \A u \in table : u.username # i.username}}

\* C35: a failed login does not reveal whether the email is registered: a
\* login whose password matches no user of that email is answered 401
\* 'Invalid email or password', which is also the answer of the same call on
\* every store that differs only in whether a user with that email exists,
\* and no step of a login changes the store
C35_LoginDoesNotReveal ==
  /\ [][\A input \in LoginInputs :
          (last'.call = LoginCall(input) /\ Mismatch(users, input)) =>
            /\ last'.resp.code = 401
            /\ last'.resp.message = "Invalid email or password"
            /\ \A twin \in Twins(users, input.email) :
                 Mismatch(twin, input) =>
                   LoginResponse(UserByEmail(twin, input.email), input.password) = last'.resp]_vars
  /\ [][(\E r \in Requests :
            (call[r].op = "login" \/ call'[r].op = "login") /\ pc'[r] # pc[r]) =>
          UNCHANGED <<users, stats, sessions, typingResults>>]_vars
  /\ [][last'.call.op = "login" => UNCHANGED <<users, stats, sessions, typingResults>>]_vars

\* a login with the email of a registered user and a password that is not
\* theirs has just been refused by comparePassword, in a store where the other
\* email is not registered
C35_Witness ==
  /\ last.call.op = "login"
  /\ last.resp = InvalidCredentials
  /\ \E u \in users : u.email = last.call.input.email
  /\ Cardinality(users) = 1
====
